---- MODULE Spec2Model ----
(***************************************************************************)
(* Model of src/lib.rs of recurring-dates-rs: the weekday bit mask         *)
(* (WeekdayFlags), find_next_date and match_repeating_date.                *)
(*                                                                         *)
(* A calendar date (chrono::NaiveDate) is the number of days since         *)
(* 1970-01-01; a weekday (chrono::Weekday) is its `as u8` value, Mon = 0   *)
(* .. Sun = 6; a WeekdayFlags value is its u8 bit pattern.  The u64        *)
(* interval is kept as two 32-bit halves, [hi, lo] = hi * 2^32 + lo, so    *)
(* that the casts `as u32` and `as i32` of the source keep their meaning.  *)
(***************************************************************************)
EXTENDS Integers, FiniteSets, Sequences, TLC

VARIABLES start_date, weekdays, repeat, interval,
          from_date, pc, date, counter, result, error, chain,
          date_to_check, matched,
          current_dat, by_scan, by_bits

vars == <<start_date, weekdays, repeat, interval,
          from_date, pc, date, counter, result, error, chain,
          date_to_check, matched,
          current_dat, by_scan, by_bits>>

\* The argument and the results of the two next-weekday lookups.
lookup == <<current_dat, by_scan, by_bits>>

rule == <<start_date, weekdays, repeat, interval>>

(* ------------------------------ bounds -------------------------------- *)
MaxInterval == 3      \* intervals 1..MaxInterval
MaxDelta == 22        \* Daily/Weekly callers ask from start_date-1 .. start_date+MaxDelta
MaxMonths == 5        \* Monthly callers ask from up to MaxMonths months after start_date
MaxYears == 2         \* Yearly callers ask from up to MaxYears years after start_date
MaxChain == 5         \* length of a chain of calls that feed the result back
MaxSpan == 3000       \* a loop is followed while its date stays within MaxSpan days of start_date
MaxDailySpan == 400   \* the same for the Daily loop, which steps by days

NoDate == 0 - 1
NoWeekday == 0 - 1

(* --------------------------- WeekdayFlags ----------------------------- *)
MON == 1
TUE == 2
WED == 4
THU == 8
FRI == 16
SAT == 32
SUN == 64
ANY == MON + TUE + WED + THU + FRI + SAT + SUN
MIDWEEK == MON + TUE + WED + THU + FRI
WEEKEND == SAT + SUN

U8 == 256

RECURSIVE BitAnd(_, _)
BitAnd(a, b) ==
    IF a = 0 \/ b = 0 THEN 0
    ELSE (a % 2) * (b % 2) + 2 * BitAnd(a \div 2, b \div 2)

BitNot(a) == (U8 - 1) - a

from_weekday(weekday) ==
    CASE weekday = 0 -> MON
      [] weekday = 1 -> TUE
      [] weekday = 2 -> WED
      [] weekday = 3 -> THU
      [] weekday = 4 -> FRI
      [] weekday = 5 -> SAT
      [] weekday = 6 -> SUN

\* NoWeekday stands for the panic of the catch-all arm.
to_weekday(flags) ==
    CASE flags = MON -> 0
      [] flags = TUE -> 1
      [] flags = WED -> 2
      [] flags = THU -> 3
      [] flags = FRI -> 4
      [] flags = SAT -> 5
      [] flags = SUN -> 6
      [] OTHER -> NoWeekday

contains(flags, other) == BitAnd(flags, other) = other

\* is_all compared against all eight bits instead of the seven defined flags.
is_all_eight_bits(flags) == flags = U8 - 1

is_all(flags) == BitAnd(flags, ANY) = ANY

\* The flags a mask holds, in ascending bit order (bitflags' iter()).
iter(flags) == {f \in {MON, TUE, WED, THU, FRI, SAT, SUN} : contains(flags, f)}

\* The highest weekday of the mask instead of the lowest.
last_valid_weekday(flags) ==
    IF flags = 0 THEN NoWeekday
    ELSE to_weekday(CHOOSE f \in iter(flags) : \A g \in iter(flags) : g <= f)

\* bits & !(bits - 1); bits = 0 underflows (debug) or yields the empty flag
\* set, whose to_weekday panics (release): a panic in every build.
first_valid_weekday_bitwise(flags) ==
    IF flags = 0 THEN NoWeekday
    ELSE to_weekday(BitAnd(flags, BitNot(flags - 1)))

RECURSIVE ShiftScan(_, _)
ShiftScan(bits, weekday_flag) ==
    IF weekday_flag > 0 /\ BitAnd(bits, weekday_flag) = 0
    THEN ShiftScan(bits, (weekday_flag * 2) % U8)
    ELSE weekday_flag

\* The scan started at the reference weekday's own bit (the shift left out).
next_weekday_bitwise_no_shift(flags, current) ==
    LET weekday_flag == ShiftScan(flags, from_weekday(current))
    IN IF weekday_flag > 0
       THEN to_weekday(weekday_flag)
       ELSE first_valid_weekday_bitwise(flags)

next_weekday_bitwise(flags, current) ==
    LET weekday_flag == ShiftScan(flags, (from_weekday(current) * 2) % U8)
    IN IF weekday_flag > 0
       THEN to_weekday(weekday_flag)
       ELSE first_valid_weekday_bitwise(flags)

next_weekday(flags, current) ==
    LET later == {f \in iter(flags) : to_weekday(f) > current}
        least(S) == CHOOSE f \in S : \A g \in S : f <= g
    IN IF later # {} THEN to_weekday(least(later))
       ELSE IF flags = 0 THEN NoWeekday
       ELSE to_weekday(least(iter(flags)))

days_until(current, next_dat) == (7 + (next_dat - current)) % 7

(* ------------------------- chrono::NaiveDate -------------------------- *)
IsLeap(y) == (y % 4 = 0 /\ y % 100 # 0) \/ y % 400 = 0

DaysInMonth(y, m) ==
    IF m = 2 THEN (IF IsLeap(y) THEN 29 ELSE 28)
    ELSE IF m \in {4, 6, 9, 11} THEN 30 ELSE 31

\* NaiveDate::from_ymd for a valid (y, m, d), as a day number.
FromYMD(y, m, d) ==
    LET yy  == IF m <= 2 THEN y - 1 ELSE y
        era == yy \div 400
        yoe == yy - era * 400
        mp  == IF m > 2 THEN m - 3 ELSE m + 9
        doy == (153 * mp + 2) \div 5 + d - 1
        doe == yoe * 365 + yoe \div 4 - yoe \div 100 + doy
    IN era * 146097 + doe - 719468

\* The year, month and day of a day number.
Civil(z) ==
    LET zz  == z + 719468
        era == zz \div 146097
        doe == zz - era * 146097
        yoe == (doe - doe \div 1460 + doe \div 36524 - doe \div 146096) \div 365
        doy == doe - (365 * yoe + yoe \div 4 - yoe \div 100)
        mp  == (5 * doy + 2) \div 153
        d   == doy - (153 * mp + 2) \div 5 + 1
        m   == IF mp < 10 THEN mp + 3 ELSE mp - 9
        y   == yoe + era * 400 + (IF m <= 2 THEN 1 ELSE 0)
    IN [y |-> y, m |-> m, d |-> d]

year(z) == Civil(z).y
month(z) == Civil(z).m
day(z) == Civil(z).d

\* Weekday `as u8`: 1970-01-01 was a Thursday.
weekday(z) == (z + 3) % 7

\* Add whole months, the day clamped to the last day of the target month.
checked_add_months(z, n) ==
    LET c  == Civil(z)
        t  == c.y * 12 + (c.m - 1) + n
        y  == t \div 12
        m  == (t % 12) + 1
        dd == IF c.d > DaysInMonth(y, m) THEN DaysInMonth(y, m) ELSE c.d
    IN FromYMD(y, m, dd)

\* None (NoDate) when the month and day do not exist in year y.
with_year(z, y) ==
    LET c == Civil(z)
    IN IF c.d > DaysInMonth(y, c.m) THEN NoDate ELSE FromYMD(y, c.m, c.d)

\* None (-1) when base lies after z.
years_since(z, base) ==
    LET a == Civil(z)
        b == Civil(base)
        years == (a.y - b.y) - (IF a.m < b.m \/ (a.m = b.m /\ a.d < b.d) THEN 1 ELSE 0)
    IN IF years >= 0 THEN years ELSE 0 - 1

num_weeks(days) == days \div 7

get_months_since(from, start) ==
    LET years_diff == year(from) - year(start)
        years_months == years_diff * 12
    IN month(from) - month(start) + years_months

(* ------------------------- the u64 interval --------------------------- *)
U64(n) == [hi |-> 0, lo |-> n]
Pow32 == [hi |-> 1, lo |-> 0]

\* `interval as u32` and `interval as i32`: the low 32 bits (below 2^31 here).
AsU32(iv) == iv.lo
AsI32(iv) == iv.lo

\* x % (interval as i64) for 0 <= x < 2^32.
RemI64(x, iv) == IF iv.hi = 0 THEN x % iv.lo ELSE x

(* ------------------------ match_repeating_date ------------------------ *)
Bool(b) == IF b THEN "true" ELSE "false"

\* "true", "false", or "panic" (a remainder with a divisor of zero).
match_repeating_date(check, start, flags, kind, iv) ==
    IF check < start THEN "false"
    ELSE IF ~contains(flags, from_weekday(weekday(check))) THEN "false"
    ELSE LET date_diff == check - start IN
         CASE kind = "Daily" -> Bool(RemI64(date_diff, iv) = 0)
           [] kind = "Weekly" ->
                LET date_to_check_from_monday == weekday(check) + 1
                    start_date_from_monday == weekday(start) + 1
                    is_new_week == IF date_to_check_from_monday < start_date_from_monday
                                   THEN 1 ELSE 0
                IN Bool(RemI64(num_weeks(date_diff) + is_new_week, iv) = 0)
           [] kind = "Monthly" ->
                LET month_diff == get_months_since(check, start) IN
                IF day(check) # day(start) THEN "false"
                ELSE IF ~(month_diff > 0) THEN "false"
                ELSE IF AsI32(iv) = 0 THEN "panic"
                ELSE Bool(month_diff % AsI32(iv) = 0)
           [] kind = "Yearly" ->
                LET years == years_since(check, start) IN
                IF years < 0 THEN "false"
                ELSE IF day(check) # day(start) THEN "false"
                ELSE IF month(check) # month(start) THEN "false"
                ELSE IF ~(years > 0) THEN "false"
                ELSE IF AsU32(iv) = 0 THEN "panic"
                ELSE Bool(years % AsU32(iv) = 0)

(* -------------------------- find_next_date ---------------------------- *)
\* find_next_weekstart with the shift added to the boundary instead of
\* subtracted from it.
find_next_weekstart_forward(from, start, flags, n) ==
    LET days_needed_weekly == n * 7
        days_needed_total == days_needed_weekly + (from - start)
        boundary == start + (days_needed_total - (days_needed_total % days_needed_weekly))
        previous_weekday == first_valid_weekday_bitwise(flags)
        diff == weekday(boundary) - previous_weekday
        guard == IF is_all(flags) THEN 0 ELSE 1
    IN IF previous_weekday = NoWeekday THEN {NoDate}
       ELSE IF diff < 0 THEN {NoDate, boundary + ((guard * (diff + U8)) % U8)}
       ELSE {boundary + ((guard * diff) % U8)}

\* The outcomes of find_next_weekstart for an interval n < 2^32: a date, or
\* NoDate for a panic.  The u8 subtraction of the two weekdays underflows
\* when the boundary's weekday is lower than the lowest weekday of the mask:
\* a panic in a debug build, a wrapped value in a release build.
find_next_weekstart(from, start, flags, n) ==
    LET date_delta_days == from - start
        is_any_weekday_valid == is_all(flags)
        days_needed_weekly == n * 7
        days_needed_total == days_needed_weekly + date_delta_days
        fix == days_needed_total % days_needed_weekly
        day_offset == days_needed_total - fix
        boundary == start + day_offset
        result_weekday == weekday(boundary)
        previous_weekday == first_valid_weekday_bitwise(flags)
        diff == result_weekday - previous_weekday
        guard == IF is_any_weekday_valid THEN 0 ELSE 1
    IN IF previous_weekday = NoWeekday THEN {NoDate}
       ELSE IF diff < 0 THEN {NoDate, boundary - ((guard * (diff + U8)) % U8)}
       ELSE {boundary - ((guard * diff) % U8)}

\* The first candidate without the step of one interval.
DailyFirstNoStep(from, start, n) ==
    LET date_delta_days == from - start
        date_delta_mod == date_delta_days % n
    IN start + (date_delta_mod + date_delta_days)

DailyFirst(from, start, n) ==
    LET date_delta_days == from - start
        date_delta_mod == date_delta_days % n
    IN start + (date_delta_mod + date_delta_days + n)

\* The try within from_date's own week (lines 198-205).
WeeklyTry(from, flags) ==
    LET next_wd == next_weekday_bitwise(flags, weekday(from))
        from_date_weekday == weekday(from)
        guard == IF is_all(flags) THEN 0 ELSE 1
        days_until_next_valid_weekday == guard * days_until(from_date_weekday, next_wd)
    IN from + days_until_next_valid_weekday

\* The outcomes of the Weekly arm.
WeeklyArm(from, start, flags, iv) ==
    LET try == WeeklyTry(from, flags)
    IN IF try > from /\ match_repeating_date(try, start, flags, "Weekly", iv) = "true"
       THEN {try}
       ELSE find_next_weekstart(from, start, flags, iv.lo)

MonthlyDelta(from, start, n) ==
    LET month_diff == get_months_since(from, start)
    IN n + ((IF month_diff % n = 0 THEN 1 ELSE 0) * month_diff)

YearlyFirst(from, start, n) ==
    with_year(start, year(start) + years_since(from, start) + n)

max_year_skip == 100

(* ------------------------------ inputs -------------------------------- *)
Kinds == {"Daily", "Weekly", "Monthly", "Yearly"}

\* The masks of at most two weekdays (the empty mask included), the named
\* unions, and the larger masks of the test tables.
Masks ==
    {0} \cup UNION {{a + b : b \in iter(ANY) \ {a}} : a \in {0} \cup iter(ANY)}
        \cup {ANY, MIDWEEK, WEEKEND}
        \cup {TUE + THU + FRI, TUE + THU + SUN, MON + WED + FRI + SAT}
Intervals == {U64(n) : n \in 1 .. MaxInterval}

\* Monday 2024-01-29 .. Sunday 2024-02-04 (every weekday, and the days of
\* the month 29, 30 and 31), and the leap day 2024-02-29.
StartDates == {FromYMD(2024, 1, 29) + s : s \in 0 .. 6} \cup {FromYMD(2024, 2, 29)}

Around(z) == {z - 1, z, z + 1}

FromDates(start, kind) ==
    IF kind \in {"Daily", "Weekly"} THEN {start + d : d \in (0 - 1) .. MaxDelta}
    ELSE IF kind = "Monthly"
    THEN UNION {Around(checked_add_months(start, k)) : k \in 0 .. MaxMonths}
    ELSE UNION {Around(checked_add_months(start, 12 * k)) : k \in 0 .. MaxYears}

(* ------------------------------ actions ------------------------------- *)
Init ==
    /\ start_date \in StartDates
    /\ weekdays \in Masks
    /\ repeat \in Kinds
    /\ interval \in Intervals
    /\ from_date = NoDate
    /\ pc = "idle"
    /\ date = NoDate
    /\ counter = 0
    /\ result = NoDate
    /\ error = "none"
    /\ chain = 0
    /\ date_to_check = NoDate
    /\ matched = "none"
    /\ current_dat = NoWeekday
    /\ by_scan = NoWeekday
    /\ by_bits = NoWeekday

\* The two precondition checks of find_next_date, in their order
\* (lines 174-180): the error returned, or "none".
SwappedPrecondition(f, start, flags) ==
    IF ~contains(flags, from_weekday(weekday(start))) THEN "WrongWeekday"
    ELSE IF f < start THEN "StartDateBeforeBound"
    ELSE "none"

Precondition(f, start, flags) ==
    IF f < start THEN "StartDateBeforeBound"
    ELSE IF ~contains(flags, from_weekday(weekday(start))) THEN "WrongWeekday"
    ELSE "none"

\* find_next_date(f, ...) up to its first loop test (lines 173-234), for an
\* interval below 2^32.
Enter(f, ch) ==
    /\ interval.hi = 0
    /\ from_date' = f
    /\ chain' = ch
    /\ UNCHANGED <<rule, date_to_check, matched, lookup>>
    /\ error' = Precondition(f, start_date, weekdays)
    /\ counter' = 0
    /\ IF Precondition(f, start_date, weekdays) # "none"
       THEN /\ pc' = "err"
            /\ date' = NoDate
            /\ result' = NoDate
       ELSE CASE repeat = "Daily" ->
                      /\ date' = DailyFirst(f, start_date, interval.lo)
                      /\ pc' = "daily_loop"
                      /\ result' = NoDate
                 [] repeat = "Weekly" ->
                      \E r \in WeeklyArm(f, start_date, weekdays, interval) :
                          /\ date' = NoDate
                          /\ result' = r
                          /\ pc' = IF r = NoDate THEN "panic" ELSE "ok"
                 [] repeat = "Monthly" ->
                      /\ date' = checked_add_months(start_date,
                                     MonthlyDelta(f, start_date, AsI32(interval)))
                      /\ pc' = "monthly_loop"
                      /\ result' = NoDate
                 [] repeat = "Yearly" ->
                      LET first == YearlyFirst(f, start_date, AsI32(interval)) IN
                      /\ date' = first
                      /\ pc' = IF first = NoDate THEN "panic" ELSE "yearly_loop"
                      /\ result' = NoDate

\* A caller asks for the occurrence after an arbitrary date (a call from
\* start_date itself opens a chain).
Call ==
    /\ pc = "idle"
    /\ \E f \in FromDates(start_date, repeat) :
           Enter(f, IF f = start_date THEN 1 ELSE 0)

\* A caller enumerating the schedule feeds the last result back.
CallNext ==
    /\ pc = "ok"
    /\ chain >= 1
    /\ chain < MaxChain
    /\ Enter(result, chain + 1)

InSpan(z) == z - start_date <= (IF repeat = "Daily" THEN MaxDailySpan ELSE MaxSpan)

\* One test of the Daily loop (lines 191-195).
DailyStep ==
    /\ pc = "daily_loop"
    /\ UNCHANGED <<rule, from_date, counter, error, chain, date_to_check, matched, lookup>>
    /\ IF ~contains(weekdays, from_weekday(weekday(date)))
       THEN /\ InSpan(date + interval.lo)
            /\ date' = date + interval.lo
            /\ UNCHANGED <<pc, result>>
       ELSE /\ pc' = "ok"
            /\ result' = date
            /\ date' = NoDate

\* One test of the Monthly loop (lines 221-225).
MonthlyStep ==
    /\ pc = "monthly_loop"
    /\ UNCHANGED <<rule, from_date, counter, error, chain, date_to_check, matched, lookup>>
    /\ IF ~contains(weekdays, from_weekday(weekday(date)))
       THEN /\ InSpan(checked_add_months(date, AsI32(interval)))
            /\ date' = checked_add_months(date, AsI32(interval))
            /\ UNCHANGED <<pc, result>>
       ELSE /\ pc' = "ok"
            /\ result' = date
            /\ date' = NoDate

\* One test of the Yearly loop (lines 237-244).
YearlyStep ==
    /\ pc = "yearly_loop"
    /\ UNCHANGED <<rule, from_date, error, chain, date_to_check, matched, lookup>>
    /\ IF counter < max_year_skip /\ ~contains(weekdays, from_weekday(weekday(date)))
       THEN LET cur_year == year(start_date)
                next == with_year(date, cur_year + AsI32(interval))
            IN IF next = NoDate
               THEN /\ pc' = "panic"
                    /\ date' = NoDate
                    /\ UNCHANGED <<counter, result>>
               ELSE /\ date' = next
                    /\ counter' = counter + 1
                    /\ UNCHANGED <<pc, result>>
       ELSE /\ pc' = "ok"
            /\ result' = date
            /\ date' = NoDate
            /\ counter' = 0

Next == Call \/ CallNext \/ DailyStep \/ MonthlyStep \/ YearlyStep

Spec == Init /\ [][Next]_vars

(* ---------------- match_repeating_date on its own --------------------- *)
\* The predicate is also called with intervals of 2^32 and more.
InitMatch ==
    /\ start_date \in StartDates
    /\ weekdays \in Masks
    /\ repeat \in Kinds
    /\ interval \in Intervals \cup {Pow32}
    /\ from_date = NoDate
    /\ pc = "idle"
    /\ date = NoDate
    /\ counter = 0
    /\ result = NoDate
    /\ error = "none"
    /\ chain = 0
    /\ date_to_check = NoDate
    /\ matched = "none"
    /\ current_dat = NoWeekday
    /\ by_scan = NoWeekday
    /\ by_bits = NoWeekday

\* One call of match_repeating_date (lines 249-283).
Match ==
    /\ matched = "none"
    /\ \E c \in FromDates(start_date, repeat) :
           /\ date_to_check' = c
           /\ matched' = match_repeating_date(c, start_date, weekdays, repeat, interval)
    /\ UNCHANGED <<rule, from_date, pc, date, counter, result, error, chain, lookup>>

NextMatch == Match

SpecMatch == InitMatch /\ [][NextMatch]_vars

(* ------------- the Daily arm with an interval of one week ------------- *)
InitDailyWeek ==
    /\ start_date \in StartDates
    /\ weekdays \in Masks
    /\ repeat = "Daily"
    /\ interval = U64(7)
    /\ from_date = NoDate
    /\ pc = "idle"
    /\ date = NoDate
    /\ counter = 0
    /\ result = NoDate
    /\ error = "none"
    /\ chain = 0
    /\ date_to_check = NoDate
    /\ matched = "none"
    /\ current_dat = NoWeekday
    /\ by_scan = NoWeekday
    /\ by_bits = NoWeekday

NextDaily == Call \/ CallNext \/ DailyStep

SpecDailyWeek == InitDailyWeek /\ [][NextDaily]_vars

(* ------------------ the two next-weekday lookups ---------------------- *)
\* Every mask, the empty one included; the rule's other parts are not read.
InitWeekday ==
    /\ start_date = FromYMD(2024, 1, 29)
    /\ weekdays \in 0 .. ANY
    /\ repeat = "Weekly"
    /\ interval = U64(1)
    /\ from_date = NoDate
    /\ pc = "idle"
    /\ date = NoDate
    /\ counter = 0
    /\ result = NoDate
    /\ error = "none"
    /\ chain = 0
    /\ date_to_check = NoDate
    /\ matched = "none"
    /\ current_dat = NoWeekday
    /\ by_scan = NoWeekday
    /\ by_bits = NoWeekday

\* next_weekday and next_weekday_bitwise on the same mask and weekday
\* (lines 72-99); NoWeekday is a panic.
NextWeekday ==
    /\ current_dat = NoWeekday
    /\ \E w \in 0 .. 6 :
           /\ current_dat' = w
           /\ by_scan' = next_weekday(weekdays, w)
           /\ by_bits' = next_weekday_bitwise(weekdays, w)
    /\ UNCHANGED <<rule, from_date, pc, date, counter, result, error, chain,
                   date_to_check, matched>>

NextLookup == NextWeekday

SpecWeekday == InitWeekday /\ [][NextLookup]_vars

(* ============================== claims ================================ *)
\* Whether weekday wd is one of the weekdays of a mask.
DayIn(flags, wd) == (flags \div from_weekday(wd)) % 2 = 1

Matches(x) == match_repeating_date(x, start_date, weekdays, repeat, interval) = "true"

\* C1: every date find_next_date returns is accepted by match_repeating_date
\* under the same rule, and its weekday is in the mask.
C1_RoundTrip ==
    pc = "ok" => Matches(result) /\ DayIn(weekdays, weekday(result))

\* C2: the date find_next_date returns is strictly greater than from_date.
C2_Monotonic ==
    pc = "ok" => result > from_date

\* C3: no date strictly between from_date and the returned date is accepted
\* by match_repeating_date (the returned date is the earliest occurrence).
C3_Earliest ==
    pc = "ok" => ~\E x \in (from_date + 1) .. (result - 1) : Matches(x)

\* C4: once find_next_date was called: from_date < start_date gives
\* Err(StartDateBeforeBound), whatever the mask; otherwise a mask without
\* start_date's weekday gives Err(WrongWeekday); the call gets past the
\* checks only when both preconditions hold; an error carries no date.
C4_Preconditions ==
    pc # "idle" =>
        /\ from_date < start_date
              => pc = "err" /\ error = "StartDateBeforeBound"
        /\ (from_date >= start_date /\ ~DayIn(weekdays, weekday(start_date)))
              => pc = "err" /\ error = "WrongWeekday"
        /\ pc # "err"
              => from_date >= start_date /\ DayIn(weekdays, weekday(start_date))
        /\ pc = "err" => result = NoDate /\ date = NoDate

\* C4 witness: both preconditions are violated and the first one is reported.
C4_Witness ==
    /\ pc = "err"
    /\ error = "StartDateBeforeBound"
    /\ from_date < start_date
    /\ ~DayIn(weekdays, weekday(start_date))

\* C5: match_repeating_date never raises an error, and answers false when
\* the candidate lies before start_date or its weekday is not in the mask.
C5_MatchTotal ==
    /\ matched # "panic"
    /\ (matched # "none" /\ (date_to_check < start_date
                             \/ ~DayIn(weekdays, weekday(date_to_check))))
          => matched = "false"

\* The Daily occurrences of the rule: start_date + k * interval days, k >= 1,
\* on a weekday of the mask.
DailyOccurrence(x) ==
    /\ x > start_date
    /\ (x - start_date) % interval.lo = 0
    /\ DayIn(weekdays, weekday(x))

\* C6: in a chain of Daily calls that starts at start_date and feeds each
\* result back, every call starts from start_date or an occurrence and
\* returns the next occurrence: none skipped, none repeated.
C6_DailyEnumeration ==
    (pc = "ok" /\ repeat = "Daily" /\ chain >= 1) =>
        /\ from_date = start_date \/ DailyOccurrence(from_date)
        /\ result > from_date
        /\ DailyOccurrence(result)
        /\ \A x \in (from_date + 1) .. (result - 1) : ~DailyOccurrence(x)

\* C6 witness: a later call of a chain steps over grid points whose weekday
\* is not in the mask.
C6_Witness ==
    /\ pc = "ok" /\ repeat = "Daily" /\ chain >= 3
    /\ interval.lo = 2
    /\ result - from_date > 2 * interval.lo

\* The number of the Monday-based calendar week of a date.
WeekOf(z) == (z + 3) \div 7

\* The Weekly occurrences of the rule: the dates after start_date on a mask
\* weekday in a week whose distance from start_date's week is a multiple of
\* the interval.
WeeklyOccurrence(x) ==
    /\ x > start_date
    /\ DayIn(weekdays, weekday(x))
    /\ (WeekOf(x) - WeekOf(start_date)) % interval.lo = 0

\* C7: in a chain of Weekly calls with a mask that is not all seven
\* weekdays, every call returns, and returns the next occurrence after its
\* from_date: none skipped, none repeated.
C7_WeeklyEnumeration ==
    (repeat = "Weekly" /\ chain >= 1 /\ weekdays # ANY /\ pc # "err") =>
        /\ pc = "ok"
        /\ from_date = start_date \/ WeeklyOccurrence(from_date)
        /\ result > from_date
        /\ WeeklyOccurrence(result)
        /\ \A x \in (from_date + 1) .. (result - 1) : ~WeeklyOccurrence(x)

\* C7 witness: a chain reaches the next valid week, interval weeks later, on
\* a weekday that lies before start_date's weekday.
C7_Witness ==
    /\ pc = "ok" /\ repeat = "Weekly" /\ chain >= 2 /\ weekdays # ANY
    /\ interval.lo >= 2
    /\ WeekOf(result) - WeekOf(from_date) = interval.lo
    /\ weekday(result) < weekday(start_date)

\* C8 as stated: with all seven weekdays in the mask, the Weekly result falls
\* on from_date's own weekday.
C8_FromDateWeekday ==
    (pc = "ok" /\ repeat = "Weekly" /\ weekdays = ANY) =>
        weekday(result) = weekday(from_date)

\* C8 amended: with all seven weekdays in the mask, the Weekly result falls
\* on start_date's weekday: it is the first date after from_date that lies a
\* multiple of interval weeks after start_date.
C8_StartDateWeekday ==
    (pc = "ok" /\ repeat = "Weekly" /\ weekdays = ANY) =>
        /\ weekday(result) = weekday(start_date)
        /\ (result - start_date) % (7 * interval.lo) = 0
        /\ result > from_date
        /\ result - from_date <= 7 * interval.lo

\* C8 witness: from_date's weekday differs from start_date's weekday.
C8_Witness ==
    /\ pc = "ok" /\ repeat = "Weekly" /\ weekdays = ANY
    /\ weekday(from_date) # weekday(start_date)
    /\ interval.lo >= 2

MonthSteps == 48

\* start_date advanced by k intervals of months.
Landed(k) == checked_add_months(start_date, k * interval.lo)

\* Whether k intervals is a number of months the claim allows: greater than
\* from_date's month offset, landing on a weekday of the mask.
Lands(k) ==
    /\ k * interval.lo > get_months_since(from_date, start_date)
    /\ DayIn(weekdays, weekday(Landed(k)))

\* C9: the Monthly result is start_date advanced by the smallest positive
\* multiple of the interval that is greater than from_date's month offset
\* and lands on a weekday of the mask.
C9_MonthlyAdvance ==
    (pc = "ok" /\ repeat = "Monthly" /\ \E k \in 1 .. MonthSteps : Lands(k)) =>
        \E k \in 1 .. MonthSteps :
            /\ Lands(k)
            /\ \A j \in 1 .. (k - 1) : ~Lands(j)
            /\ result = Landed(k)

\* The candidate of the (j+1)-th attempt of the Yearly arm, as the claim has
\* it: each attempt interval years after the one before.
YearCandidate(j) ==
    with_year(start_date, year(start_date) + years_since(from_date, start_date)
                              + interval.lo + j * interval.lo)

\* C10: the Yearly result has start_date's month and day, and its weekday is
\* in the mask whenever one of the candidates of the attempts, each interval
\* years after the one before, has a weekday in the mask.
C10_YearlyAdvance ==
    (pc = "ok" /\ repeat = "Yearly") =>
        /\ month(result) = month(start_date)
        /\ day(result) = day(start_date)
        /\ (\E j \in 0 .. max_year_skip :
                /\ YearCandidate(j) # NoDate
                /\ DayIn(weekdays, weekday(YearCandidate(j))))
              => DayIn(weekdays, weekday(result))

\* C13: for an arbitrary from_date the Daily result lies a multiple of the
\* interval after start_date, and is the first such date after from_date
\* whose weekday is in the mask.
C13_DailyOnGrid ==
    (pc = "ok" /\ repeat = "Daily") =>
        /\ (result - start_date) % interval.lo = 0
        /\ result - start_date > from_date - start_date
        /\ DayIn(weekdays, weekday(result))
        /\ ~\E x \in (from_date + 1) .. (result - 1) : DailyOccurrence(x)

\* The boundary date of the Weekly fallback as the claim gives it.
Boundary ==
    start_date + (((from_date - start_date) \div (7 * interval.lo)) + 1)
                     * (7 * interval.lo)

\* The lowest weekday of a non-empty mask.
LowestDay(flags) ==
    CHOOSE w \in 0 .. 6 : DayIn(flags, w) /\ \A v \in 0 .. 6 : DayIn(flags, v) => w <= v

\* The Weekly call did not return the date tried within from_date's week.
FellBack ==
    LET try == WeeklyTry(from_date, weekdays)
    IN ~(try > from_date /\ Matches(try))

\* C14: when the Weekly arm falls back to find_next_weekstart, the weekday
\* subtraction does not underflow (no panic, no wrapped value), the result
\* is the boundary moved back by (boundary weekday - lowest mask weekday)
\* days, it stays in the boundary's Monday-based week, and it is the
\* boundary itself when the mask holds all seven weekdays.
C14_FallbackShift ==
    (repeat = "Weekly" /\ pc \in {"ok", "panic"} /\ FellBack) =>
        /\ pc = "ok"
        /\ weekday(Boundary) >= LowestDay(weekdays)
        /\ result = Boundary - (IF weekdays = ANY THEN 0
                                ELSE weekday(Boundary) - LowestDay(weekdays))
        /\ result <= Boundary
        /\ WeekOf(result) = WeekOf(Boundary)

\* C14 witness: a fallback that moves the boundary back by at least two days,
\* from a from_date more than one interval of weeks after start_date.
C14_Witness ==
    /\ repeat = "Weekly" /\ pc = "ok" /\ FellBack
    /\ weekdays # ANY
    /\ Boundary - result >= 2
    /\ from_date - start_date >= 7 * interval.lo

\* The number of weekdays of a mask.
PopCount(flags) == Cardinality({w \in 0 .. 6 : DayIn(flags, w)})

\* The interval steps a Daily or Monthly loop has taken so far.
LoopSteps ==
    CASE pc = "daily_loop" ->
             (date - DailyFirst(from_date, start_date, interval.lo)) \div interval.lo
      [] pc = "monthly_loop" ->
             get_months_since(date,
                 checked_add_months(start_date,
                     MonthlyDelta(from_date, start_date, interval.lo))) \div interval.lo
      [] OTHER -> 0

\* C11: a Daily or Monthly loop never takes more interval steps than the
\* mask has weekdays, and the Yearly loop never more than 100 iterations.
C11_LoopsBounded ==
    /\ pc \in {"daily_loop", "monthly_loop"} => LoopSteps <= PopCount(weekdays)
    /\ pc = "yearly_loop" => counter <= max_year_skip

\* The weekday the claim expects: the lowest mask weekday after w, or the
\* lowest mask weekday when none lies after w.
CircularNext(flags, w) ==
    LET later == {v \in 0 .. 6 : v > w /\ DayIn(flags, v)}
    IN IF later # {}
       THEN CHOOSE v \in later : \A u \in later : v <= u
       ELSE LowestDay(flags)

\* C12: on every non-empty mask and every weekday the two lookups return the
\* same weekday, the circular next weekday of the mask, a member of the mask.
C12_NextWeekdayAgree ==
    (current_dat # NoWeekday /\ weekdays # 0) =>
        /\ by_scan = by_bits
        /\ by_bits = CircularNext(weekdays, current_dat)
        /\ by_bits \in 0 .. 6
        /\ DayIn(weekdays, by_bits)

\* C12 witness: from Sunday the lookups wrap to the lowest weekday of a mask
\* of several weekdays that does not hold Monday.
C12_Witness ==
    /\ current_dat = 6
    /\ PopCount(weekdays) >= 2
    /\ by_scan = by_bits
    /\ by_bits = LowestDay(weekdays)
    /\ by_bits > 0

====
